---- MODULE Spec2Model ----
(***************************************************************************)
(* Model of s3_debug.py: the URL resolver extract_bucket_and_key, the five  *)
(* probe functions and the orchestrator debug_s3_access.                    *)
(*                                                                          *)
(* Python strings that the program splits and joins (url, bucket, key,      *)
(* prefix) are sequences of one-character strings, so substring search,     *)
(* split and join are computed character by character as Python does.       *)
(* Values the program only compares or passes on (region names, error       *)
(* codes, console markup) are TLA+ strings.                                 *)
(***************************************************************************)
EXTENDS Naturals, Sequences, FiniteSets

VARIABLES
    input,          \* how the URL argument was put together (ghost, never read by the program)
    url,            \* the URL argument
    region,         \* the --region option (None when absent)
    bucket,         \* debug_s3_access: bucket
    key,            \* debug_s3_access: key
    s3_client,      \* debug_s3_access: s3_client, the current client handle
    actual_region,  \* debug_s3_access: actual_region
    nclients,       \* number of session.client(...) constructions so far
    calls,          \* remote calls issued so far, in order, each with its outcome
    console,        \* what console.print has rendered so far
    pc,             \* position in debug_s3_access
    prefix          \* list_similar_objects: prefix

vars == <<input, url, region, bucket, key, s3_client, actual_region,
          nclients, calls, console, pc, prefix>>

\* Python's None
None == "<None>"

\* The empty str
Empty == << >>

\* Truth value of an optional str, as in `if x and ...`
Truthy(x) == x # None /\ x # ""

---------------------------------------------------------------------------
(* Bounds *)

\* Largest number of pieces a generated key is concatenated from
MaxKeyPieces == 3

---------------------------------------------------------------------------
(* str operations used by the program *)

\* s[i:] (1-based i)
From(s, i) == SubSeq(s, i, Len(s))

\* s.find(sub, start) with 1-based indices; 0 when absent
Find(s, sub, start) ==
    LET hits == { i \in start..(Len(s) - Len(sub) + 1) :
                    SubSeq(s, i, i + Len(sub) - 1) = sub }
    IN IF hits = {} THEN 0 ELSE CHOOSE i \in hits : \A j \in hits : i <= j

\* sub in s
Contains(s, sub) == Find(s, sub, 1) # 0

\* s.split(sep, maxsplit); maxsplit = -1 is written as Len(s)
RECURSIVE SplitMax(_, _, _)
SplitMax(s, sep, maxsplit) ==
    LET i == Find(s, sep, 1)
    IN IF i = 0 \/ maxsplit = 0
       THEN <<s>>
       ELSE <<SubSeq(s, 1, i - 1)>>
            \o SplitMax(From(s, i + Len(sep)), sep, maxsplit - 1)

\* s.split(sep)
Split(s, sep) == SplitMax(s, sep, Len(s))

\* sep.join(parts)
RECURSIVE Join(_, _)
Join(sep, parts) ==
    IF parts = << >> THEN Empty
    ELSE IF Len(parts) = 1 THEN parts[1]
    ELSE parts[1] \o sep \o Join(sep, Tail(parts))

\* parts[-1]
Last(parts) == parts[Len(parts)]

\* parts[:-1]
AllButLast(parts) == SubSeq(parts, 1, Len(parts) - 1)

\* s.lstrip(c)
RECURSIVE LStrip(_, _)
LStrip(s, c) ==
    IF s # << >> /\ Head(s) = c THEN LStrip(Tail(s), c) ELSE s

---------------------------------------------------------------------------
(* String literals of the program *)

Slash == <<"/">>

S3Dot == <<".", "s", "3", ".">>

AmazonawsComSlash ==
    <<".", "a", "m", "a", "z", "o", "n", "a", "w", "s", ".", "c", "o", "m", "/">>

---------------------------------------------------------------------------
(* urllib.parse.urlparse(url).path, for the characters of the model's URLs *)

Letters ==
    {"a", "b", "c", "d", "e", "f", "g", "h", "i", "j", "k", "l", "m",
     "n", "o", "p", "q", "r", "s", "t", "u", "v", "w", "x", "y", "z"}

Digits == {"0", "1", "2", "3", "4", "5", "6", "7", "8", "9"}

\* urllib.parse.scheme_chars (lower case)
SchemeChars == Letters \cup Digits \cup {"+", "-", "."}

\* urlsplit: drop "scheme:" when the text before the first ':' is a scheme
StripScheme(u) ==
    LET i == Find(u, <<":">>, 1)
    IN IF i > 1
          /\ u[1] \in Letters
          /\ \A j \in 1..(i - 1) : u[j] \in SchemeChars
       THEN From(u, i + 1)
       ELSE u

\* urlsplit: drop "//netloc", the netloc ending at the first of '/', '?', '#'
StripNetloc(u) ==
    IF Len(u) >= 2 /\ SubSeq(u, 1, 2) = <<"/", "/">>
    THEN LET ends == { i \in 3..Len(u) : u[i] \in {"/", "?", "#"} }
         IN IF ends = {} THEN Empty
            ELSE From(u, CHOOSE i \in ends : \A j \in ends : i <= j)
    ELSE u

\* urlsplit: cut the fragment, then the query; urlparse: cut the ;params of
\* the last path segment
StripTail(u) ==
    LET noFrag  == SplitMax(u, <<"#">>, 1)[1]
        noQuery == SplitMax(noFrag, <<"?">>, 1)[1]
        slashes == { i \in 1..Len(noQuery) : noQuery[i] = "/" }
        lastSl  == IF slashes = {} THEN 1
                   ELSE CHOOSE i \in slashes : \A j \in slashes : j <= i
        semi    == Find(noQuery, <<";">>, lastSl)
    IN IF semi = 0 THEN noQuery ELSE SubSeq(noQuery, 1, semi - 1)

\* urlparse(url).path
UrlPath(u) == StripTail(StripNetloc(StripScheme(u)))

---------------------------------------------------------------------------
(* extract_bucket_and_key *)

\* the test that selects the virtual-hosted branch
IsVirtualHosted(u) == Contains(u, S3Dot)

\* bucket of the virtual-hosted branch
VirtualBucket(u) == Last(Split(Split(u, S3Dot)[1], Slash))

\* key of the virtual-hosted branch
VirtualKey(u) == Join(Slash, Split(Last(Split(u, AmazonawsComSlash)), Slash))

\* the virtual-hosted branch
VirtualHostedRule(u) == [bucket |-> VirtualBucket(u), key |-> VirtualKey(u)]

\* parts of the path-style branch
PathParts(u) == SplitMax(LStrip(UrlPath(u), "/"), Slash, 1)

\* the path-style branch
PathStyleRule(u) ==
    LET parts == PathParts(u)
    IN [bucket |-> parts[1],
        key    |-> IF Len(parts) > 1 THEN parts[2] ELSE Empty]

\* extract_bucket_and_key(url), as the pair [bucket, key]
extract_bucket_and_key(u) ==
    IF IsVirtualHosted(u) THEN VirtualHostedRule(u) ELSE PathStyleRule(u)

---------------------------------------------------------------------------
(* list_similar_objects: the prefix *)

\* faulty variant: key.split('/')[0], the first segment alone
ListingPrefix_first(k) == Split(k, Slash)[1]

\* prefix = '/'.join(key.split('/')[:-1])
ListingPrefix(k) == Join(Slash, AllButLast(Split(k, Slash)))

---------------------------------------------------------------------------
(* The storage client: what a remote call can answer *)

\* Error codes a ClientError can carry; "AccessDenied" stands for the codes
\* no handler names
ErrorCodes == {"404", "403", "NoSuchBucketPolicy", "AccessDenied"}

\* A successful response carrying d
Success(d) == [ok |-> TRUE, class |-> None, code |-> None, data |-> d]

\* A call that raises botocore.exceptions.ClientError with code c
ClientError(c) == [ok |-> FALSE, class |-> "ClientError", code |-> c, data |-> ""]

\* 'LocationConstraint' values of get_bucket_location (None for us-east-1)
LocationConstraints == {None, "us-west-2", "eu-west-1"}

\* The answers of each operation of the client
Responses(op) ==
    { ClientError(c) : c \in ErrorCodes } \cup
    CASE op = "get_bucket_location" -> { Success(lc) : lc \in LocationConstraints }
      [] op = "list_objects_v2"     -> { Success("Contents"), Success("") }
      [] OTHER                      -> { Success("") }

\* session.client('s3', region_name=r), the n-th client constructed
NewClient(n, r) == [id |-> n, region_name |-> r]

\* One console.print: markup style and message
console_print(style, text) == [style |-> style, text |-> text]

\* faulty variant: only the codes a handler names are caught
ExceptClientError_known(r) ==
    r.class = "ClientError" /\ r.code \in {"404", "403", "NoSuchBucketPolicy"}

\* `except ClientError as e`: whether the clause catches what the call raised
ExceptClientError(r) == r.class = "ClientError"

\* What a probe hands back: whether an exception left it, its return value,
\* and what it printed
Returned(ret, printed) == [raised |-> FALSE, ret |-> ret, printed |-> printed]
Raised == [raised |-> TRUE, ret |-> None, printed |-> << >>]

---------------------------------------------------------------------------
(* The probes *)

\* check_bucket_exists: message for an error code
ExistsMessage(error_code) ==
    IF error_code = "404" THEN console_print("red", "Bucket does not exist")
    ELSE IF error_code = "403" THEN console_print("yellow", "Access denied to bucket")
    ELSE console_print("red", "Error checking bucket")

check_bucket_exists(r) ==
    IF r.ok THEN Returned(TRUE, << >>)
    ELSE IF ExceptClientError(r) THEN Returned(FALSE, <<ExistsMessage(r.code)>>)
    ELSE Raised

check_object_metadata(r) ==
    IF r.ok
    THEN Returned(TRUE, <<console_print("green", "Object metadata found:"),
                          console_print("plain", "fields")>>)
    ELSE IF ExceptClientError(r)
    THEN Returned(FALSE, <<console_print("red", "Could not get object metadata")>>)
    ELSE Raised

list_similar_objects(r) ==
    IF r.ok
    THEN IF r.data = "Contents"
         THEN Returned(None, <<console_print("green", "Found similar objects:"),
                               console_print("plain", "table")>>)
         ELSE Returned(None, <<console_print("yellow", "No objects found with prefix")>>)
    ELSE IF ExceptClientError(r)
    THEN Returned(None, <<console_print("red", "Error listing objects")>>)
    ELSE Raised

\* faulty variant: the code compared with is misspelt
PolicyMessage_wrongcode(error_code) ==
    IF error_code = "NoSuchPolicy"
    THEN console_print("yellow", "No bucket policy found")
    ELSE console_print("red", "Error getting bucket policy")

\* check_bucket_policy: message for an error code
PolicyMessage(error_code) ==
    IF error_code = "NoSuchBucketPolicy"
    THEN console_print("yellow", "No bucket policy found")
    ELSE console_print("red", "Error getting bucket policy")

check_bucket_policy(r) ==
    IF r.ok
    THEN Returned(None, <<console_print("green", "Bucket policy found:"),
                          console_print("plain", "policy")>>)
    ELSE IF ExceptClientError(r) THEN Returned(None, <<PolicyMessage(r.code)>>)
    ELSE Raised

check_bucket_location(r) ==
    IF r.ok
    THEN LET reg == IF Truthy(r.data) THEN r.data ELSE "us-east-1"
         IN Returned(reg, <<console_print("green", "Bucket region")>>)
    ELSE IF ExceptClientError(r)
    THEN Returned(None, <<console_print("red", "Error getting bucket location")>>)
    ELSE Raised

\* the ACL block at the end of debug_s3_access
bucket_acl(r) ==
    IF r.ok
    THEN Returned(None, <<console_print("green", "Bucket ACL:"),
                          console_print("plain", "grants")>>)
    ELSE IF ExceptClientError(r)
    THEN Returned(None, <<console_print("red", "Error getting bucket ACL")>>)
    ELSE Raised

---------------------------------------------------------------------------
(* debug_s3_access *)

\* One remote call, as recorded in calls
Call(op, arg, r) ==
    [op |-> op, client |-> s3_client, Bucket |-> bucket, arg |-> arg, resp |-> r]

\* where control goes when a probe has handed back res
Goto(res, next) == IF res.raised THEN "crashed" ELSE next

\* faulty variant: the result of the existence probe is not tested
AfterExists_ignored(ret) == "location"

\* `if not check_bucket_exists(...): return`
AfterExists(ret) == IF ret THEN "location" ELSE "done"

\* faulty variant: the comparison of the two regions is inverted
NeedsRebuild_inverted(actual, hint) == Truthy(actual) /\ Truthy(hint) /\ actual = hint

\* faulty variant: the hint is not tested before the comparison
NeedsRebuild_nohint(actual, hint) == Truthy(actual) /\ actual # hint

\* the test that guards the client rebuild
NeedsRebuild(actual, hint) == Truthy(actual) /\ Truthy(hint) /\ actual # hint

\* faulty variant: a failed metadata probe ends the run like probe 1
AfterMetadata_gated(ret) == IF ret THEN "list" ELSE "done"

\* the return value of check_object_metadata is dropped
AfterMetadata(ret) == "list"

\* bucket, key = extract_bucket_and_key(url); the three prints; the session
\* and the first client
Setup ==
    /\ pc = "start"
    /\ LET t == extract_bucket_and_key(url)
       IN /\ bucket' = t.bucket
          /\ key' = t.key
    /\ console' = console \o <<console_print("bold", "Analyzing URL"),
                               console_print("plain", "Bucket"), console_print("plain", "Key")>>
    /\ s3_client' = NewClient(nclients + 1, region)
    /\ nclients' = nclients + 1
    /\ pc' = "exists"
    /\ UNCHANGED <<input, url, region, actual_region, calls, prefix>>

ExistsStep ==
    /\ pc = "exists"
    /\ \E r \in Responses("head_bucket") :
         LET res == check_bucket_exists(r)
         IN /\ calls' = Append(calls, Call("head_bucket", Empty, r))
            /\ console' = console \o res.printed
            /\ pc' = IF res.raised THEN "crashed" ELSE AfterExists(res.ret)
    /\ UNCHANGED <<input, url, region, bucket, key, s3_client, actual_region,
                   nclients, prefix>>

LocationStep ==
    /\ pc = "location"
    /\ \E r \in Responses("get_bucket_location") :
         LET res == check_bucket_location(r)
         IN /\ calls' = Append(calls, Call("get_bucket_location", Empty, r))
            /\ actual_region' = res.ret
            /\ pc' = Goto(res, "metadata")
            /\ IF ~res.raised /\ NeedsRebuild(res.ret, region)
               THEN /\ console' = console \o res.printed
                                  \o <<console_print("yellow", "Warning: region differs")>>
                    /\ s3_client' = NewClient(nclients + 1, res.ret)
                    /\ nclients' = nclients + 1
               ELSE /\ console' = console \o res.printed
                    /\ UNCHANGED <<s3_client, nclients>>
    /\ UNCHANGED <<input, url, region, bucket, key, prefix>>

MetadataStep ==
    /\ pc = "metadata"
    /\ \E r \in Responses("head_object") :
         LET res == check_object_metadata(r)
         IN /\ calls' = Append(calls, Call("head_object", key, r))
            /\ console' = console \o res.printed
            /\ pc' = Goto(res, AfterMetadata(res.ret))
    /\ UNCHANGED <<input, url, region, bucket, key, s3_client, actual_region,
                   nclients, prefix>>

ListStep ==
    /\ pc = "list"
    /\ prefix' = ListingPrefix(key)
    /\ \E r \in Responses("list_objects_v2") :
         LET res == list_similar_objects(r)
         IN /\ calls' = Append(calls, Call("list_objects_v2", prefix', r))
            /\ console' = console \o res.printed
            /\ pc' = Goto(res, "policy")
    /\ UNCHANGED <<input, url, region, bucket, key, s3_client, actual_region,
                   nclients>>

PolicyStep ==
    /\ pc = "policy"
    /\ \E r \in Responses("get_bucket_policy") :
         LET res == check_bucket_policy(r)
         IN /\ calls' = Append(calls, Call("get_bucket_policy", Empty, r))
            /\ console' = console \o res.printed
            /\ pc' = Goto(res, "acl")
    /\ UNCHANGED <<input, url, region, bucket, key, s3_client, actual_region,
                   nclients, prefix>>

AclStep ==
    /\ pc = "acl"
    /\ \E r \in Responses("get_bucket_acl") :
         LET res == bucket_acl(r)
         IN /\ calls' = Append(calls, Call("get_bucket_acl", Empty, r))
            /\ console' = console \o res.printed
            /\ pc' = Goto(res, "done")
    /\ UNCHANGED <<input, url, region, bucket, key, s3_client, actual_region,
                   nclients, prefix>>

---------------------------------------------------------------------------
(* Inputs *)

Https == <<"h", "t", "t", "p", "s", ":", "/", "/">>

\* host of a path-style URL
S3AmazonawsCom == <<"s", "3", ".", "a", "m", "a", "z", "o", "n", "a", "w", "s", ".", "c", "o", "m">>

UsWest2 == <<"u", "s", "-", "w", "e", "s", "t", "-", "2">>

\* bucket names: plain and dotted
Buckets == { <<"b">>, <<"b", ".", "c">> }

\* what keys are concatenated from
KeyPieces == { <<"a">>, Slash, S3Dot, AmazonawsComSlash }

\* all concatenations of at most n pieces
RECURSIVE Concats(_)
Concats(n) ==
    IF n = 0 THEN { Empty }
    ELSE LET shorter == Concats(n - 1)
         IN shorter \cup { k \o p : k \in shorter, p \in KeyPieces }

Keys == Concats(MaxKeyPieces)

\* the three URL shapes: https://B.s3.R.amazonaws.com/K,
\* https://s3.amazonaws.com/B/K and https://s3.amazonaws.com/B
Shapes ==
    [style : {"virtual", "path"}, B : Buckets, R : {UsWest2}, K : Keys]
    \cup [style : {"bare"}, B : Buckets, R : {UsWest2}, K : {Empty}]

\* the URL of a shape
UrlOf(sh) ==
    CASE sh.style = "virtual" ->
           Https \o sh.B \o S3Dot \o sh.R \o AmazonawsComSlash \o sh.K
      [] sh.style = "path" ->
           Https \o S3AmazonawsCom \o Slash \o sh.B \o Slash \o sh.K
      [] sh.style = "bare" ->
           Https \o S3AmazonawsCom \o Slash \o sh.B

\* values of --region: absent, empty, and two region names
RegionHints == {None, "", "us-east-1", "us-west-2"}

\* the URLs whole runs are explored for
RunShapes ==
    { [style |-> "virtual", B |-> <<"b">>, R |-> UsWest2, K |-> <<"a", "/", "a">>],
      [style |-> "path", B |-> <<"b">>, R |-> UsWest2, K |-> <<"a">>],
      [style |-> "bare", B |-> <<"b">>, R |-> UsWest2, K |-> Empty] }

---------------------------------------------------------------------------
(* Specifications *)

\* the state at entry to debug_s3_access(url, profile, region)
Entry(sh, hint) ==
    /\ input = sh
    /\ url = UrlOf(sh)
    /\ region = hint
    /\ bucket = Empty
    /\ key = Empty
    /\ s3_client = NewClient(0, None)
    /\ actual_region = None
    /\ nclients = 0
    /\ calls = << >>
    /\ console = << >>
    /\ pc = "start"
    /\ prefix = Empty

Init == \E sh \in RunShapes, hint \in RegionHints : Entry(sh, hint)

Next ==
    \/ Setup
    \/ ExistsStep
    \/ LocationStep
    \/ MetadataStep
    \/ ListStep
    \/ PolicyStep
    \/ AclStep

\* whole runs of debug_s3_access
Spec == Init /\ [][Next]_vars

\* extract_bucket_and_key on every URL of the three shapes
InitResolve == \E sh \in Shapes : Entry(sh, None)

SpecResolve == InitResolve /\ [][Setup]_vars

\* list_similar_objects entered with any key
InitList ==
    /\ input = [style |-> "path", B |-> <<"b">>, R |-> UsWest2, K |-> Empty]
    /\ url = UrlOf(input)
    /\ region = None
    /\ bucket = <<"b">>
    /\ key \in Keys
    /\ s3_client = NewClient(1, None)
    /\ actual_region = None
    /\ nclients = 1
    /\ calls = << >>
    /\ console = << >>
    /\ pc = "list"
    /\ prefix = Empty

SpecList == InitList /\ [][ListStep]_vars

---------------------------------------------------------------------------
(* Properties *)

\* the operations of the calls issued so far, in order
Ops == [i \in DOMAIN calls |-> calls[i].op]

\* the six probes in program order
SixOps == <<"head_bucket", "get_bucket_location", "head_object",
            "list_objects_v2", "get_bucket_policy", "get_bucket_acl">>

\* the run is over
Ended == pc = "done"

\* the messages on the console whose text is in texts, in order
Rendered(texts) == SelectSeq(console, LAMBDA m : m.text \in texts)

\* the existence probe failed
ExistenceFailed == Len(calls) >= 1 /\ ~calls[1].resp.ok

\* C1: when head_bucket fails, whatever the error code, head_bucket is the
\* only remote call of the run and the run has ended normally.
C1_ExistenceFailureAborts ==
    ExistenceFailed =>
        /\ Ops = <<"head_bucket">>
        /\ Ended

\* C1 witness: head_bucket failed with a code no handler names, and the run
\* is over
C1_Witness ==
    /\ ExistenceFailed
    /\ calls[1].resp.code = "AccessDenied"
    /\ Ended

\* the location probe succeeded
LocationSucceeded ==
    /\ Len(calls) >= 2
    /\ calls[2].op = "get_bucket_location"
    /\ calls[2].resp.ok

\* the region a successful location probe reports
Discovered ==
    IF calls[2].resp.data = None THEN "us-east-1" ELSE calls[2].resp.data

\* a region hint was supplied (a non-empty --region) and the location probe
\* found another region
RegionMismatch ==
    /\ LocationSucceeded
    /\ Truthy(region)
    /\ Discovered # region

\* C2: after a successful location probe that reports a region other than
\* the supplied hint, every later probe calls through a client bound to the
\* discovered region, never through the client bound to the hint.
C2_LaterProbesUseDiscoveredRegion ==
    RegionMismatch =>
        /\ \A i \in 3..Len(calls) :
              /\ calls[i].client.region_name = Discovered
              /\ calls[i].client # calls[1].client
        /\ pc \in {"metadata", "list", "policy", "acl"} =>
              /\ s3_client.region_name = Discovered
              /\ s3_client # calls[1].client

\* C2 witness: a whole run of six calls with a mismatching hint
C2_Witness ==
    /\ RegionMismatch
    /\ Len(calls) = 6
    /\ Ended

\* the input has the shape https://B.s3.R.amazonaws.com/K and was resolved
ResolvedVirtual == pc # "start" /\ input.style = "virtual"

\* the input has the shape https://s3.amazonaws.com/B/K or
\* https://s3.amazonaws.com/B and was resolved
ResolvedPath == pc # "start" /\ input.style \in {"path", "bare"}

\* C3: for https://B.s3.R.amazonaws.com/K the resolver returns (B, K).
C3_VirtualHostedReturnsBK ==
    ResolvedVirtual => bucket = input.B /\ key = input.K

\* C4: for https://s3.amazonaws.com/B/K the resolver returns (B, K), and
\* (B, "") for https://s3.amazonaws.com/B.
C4_PathStyleReturnsBK ==
    ResolvedPath => bucket = input.B /\ key = input.K

\* the policy probe failed with the given codes
PolicyFailedWith(codes) ==
    \E i \in DOMAIN calls :
        /\ calls[i].op = "get_bucket_policy"
        /\ ~calls[i].resp.ok
        /\ calls[i].resp.code \in codes

\* what the policy probe has put on the console
PolicyOutput ==
    Rendered({"Bucket policy found:", "policy", "No bucket policy found",
              "Error getting bucket policy"})

\* the ACL probe is the next to run, or has issued its call
AclRunsAfterPolicy ==
    \/ /\ pc = "acl"
       /\ Len(calls) = 5
    \/ /\ Len(calls) = 6
       /\ calls[5].op = "get_bucket_policy"
       /\ calls[6].op = "get_bucket_acl"

\* C5: a policy probe failing with NoSuchBucketPolicy prints one message, not
\* in the error style; failing with any other code it prints one message in
\* the error style; either way the ACL probe runs next.
C5_NoPolicyIsInformational ==
    /\ PolicyFailedWith({"NoSuchBucketPolicy"}) =>
          /\ Len(PolicyOutput) = 1
          /\ PolicyOutput[1].style = "yellow"
          /\ AclRunsAfterPolicy
    /\ PolicyFailedWith(ErrorCodes \ {"NoSuchBucketPolicy"}) =>
          /\ Len(PolicyOutput) = 1
          /\ PolicyOutput[1].style = "red"
          /\ AclRunsAfterPolicy

\* C5 witness: the policy probe failed with NoSuchBucketPolicy and the ACL
\* probe has issued its call
C5_Witness ==
    /\ PolicyFailedWith({"NoSuchBucketPolicy"})
    /\ Len(calls) = 6
    /\ calls[6].op = "get_bucket_acl"

\* the positions of '/' in the key
KeySlashes == { j \in 1..Len(key) : key[j] = "/" }

\* C6: the Prefix sent to list_objects_v2 is empty for a key without '/',
\* and otherwise the key up to, not including, its last '/'.
C6_PrefixDropsLastSegment ==
    \A i \in DOMAIN calls :
        calls[i].op = "list_objects_v2" =>
            IF KeySlashes = {}
            THEN calls[i].arg = Empty
            ELSE \E j \in KeySlashes :
                    /\ \A m \in KeySlashes : m <= j
                    /\ calls[i].arg = SubSeq(key, 1, j - 1)
                    /\ calls[i].arg \o Slash \o From(key, j + 1) = key

\* C6 witness: the listing call was issued for a key of two segments
C6_Witness ==
    /\ Len(calls) = 1
    /\ calls[1].op = "list_objects_v2"
    /\ key = <<"a", "/", "a">>
    /\ calls[1].arg = <<"a">>

\* C7: once the existence probe has succeeded, the calls issued are always
\* an initial part of the six probes in program order, control is at the
\* probe that follows the last call, and the run ends exactly when all six
\* have been issued.
C7_FixedOrderOnce ==
    (Len(calls) >= 1 /\ calls[1].resp.ok) =>
        /\ Len(calls) <= 6
        /\ Ops = SubSeq(SixOps, 1, Len(calls))
        /\ pc = <<"location", "metadata", "list", "policy", "acl", "done">>[Len(calls)]

\* C7 witness: a run in which probes 2 to 6 all failed, at its end
C7_Witness ==
    /\ Len(calls) = 6
    /\ calls[1].resp.ok
    /\ \A i \in 2..6 : ~calls[i].resp.ok
    /\ Ended

\* the texts a probe prints when its call fails
FailureTexts(op) ==
    CASE op = "head_bucket" ->
           {"Bucket does not exist", "Access denied to bucket", "Error checking bucket"}
      [] op = "get_bucket_location" -> {"Error getting bucket location"}
      [] op = "head_object" -> {"Could not get object metadata"}
      [] op = "list_objects_v2" -> {"Error listing objects"}
      [] op = "get_bucket_policy" ->
           {"No bucket policy found", "Error getting bucket policy"}
      [] op = "get_bucket_acl" -> {"Error getting bucket ACL"}

\* C8: no error of a remote call leaves the probe that issued it: the run is
\* never ended by an exception, and every failed call has its message on the
\* console.
C8_RemoteErrorsAreSwallowed ==
    /\ pc # "crashed"
    /\ \A i \in DOMAIN calls :
          ~calls[i].resp.ok => Len(Rendered(FailureTexts(calls[i].op))) = 1

\* C8 witness: the last probe failed with a code no handler names and the
\* run ended normally
C8_Witness ==
    /\ Len(calls) = 6
    /\ ~calls[6].resp.ok
    /\ calls[6].resp.code = "AccessDenied"
    /\ Ended

\* the host of a URL: what lies between "//" and the next '/'
HostOf(u) ==
    LET i    == Find(u, <<"/", "/">>, 1)
        rest == IF i = 0 THEN u ELSE From(u, i + 2)
    IN Split(rest, Slash)[1]

\* C9: the virtual-hosted rule is applied exactly when the host contains
\* ".s3."; every other URL is parsed by the path-style rule.
C9_RuleChosenByHost ==
    pc # "start" =>
        [bucket |-> bucket, key |-> key] =
            IF Contains(HostOf(url), S3Dot)
            THEN VirtualHostedRule(url)
            ELSE PathStyleRule(url)

\* the location probe gives no reason to replace the client
NoCorrection ==
    /\ Len(calls) >= 2
    /\ \/ ~calls[2].resp.ok
       \/ region = None
       \/ Discovered = region

\* C10: the client is built from --region, probes 1 and 2 call through it,
\* probes 3 to 6 all call through one client, at most one other client is
\* ever built, and none when the location probe failed, no hint was given or
\* the discovered region equals the hint.
C10_ClientReplacedAtMostOnce ==
    /\ nclients <= 2
    /\ pc \in {"exists", "location"} => s3_client = NewClient(1, region)
    /\ \A i \in DOMAIN calls :
          /\ i <= 2 => calls[i].client = NewClient(1, region)
          /\ i >= 3 => calls[i].client = calls[3].client
    /\ pc \in {"metadata", "list", "policy", "acl", "done"} =>
          /\ nclients = s3_client.id
          /\ Len(calls) >= 3 => s3_client = calls[3].client
    /\ NoCorrection =>
          /\ nclients = 1
          /\ s3_client = calls[1].client
          /\ \A i \in 3..Len(calls) : calls[i].client = calls[1].client

\* C10 witness: a whole run with a hint in which the location probe failed
C10_Witness ==
    /\ Len(calls) = 6
    /\ ~calls[2].resp.ok
    /\ Truthy(region)
    /\ Ended

====
